---- MODULE Spec2Model ----
(***************************************************************************)
(* nerexon/langpack: LanguageManager (src/src/index.js, lines 1-211).      *)
(*                                                                         *)
(* The manager loads every <locale>.json of a directory into               *)
(* this.languages, watches the directory, debounces the watcher's          *)
(* notifications per filename and reloads or removes a locale when the     *)
(* debounce timer fires; get(locale, key, args) looks a template up and    *)
(* substitutes {placeholders}.                                             *)
(*                                                                         *)
(* JavaScript strings are sequences of one-character strings, so that      *)
(* concatenation, endsWith, basename and the placeholder scan are          *)
(* computed, not assumed.                                                  *)
(***************************************************************************)
EXTENDS Integers, Sequences, FiniteSets, TLC

VARIABLES
    phase,        \* "new": constructor not yet run; "ready": constructed;
                  \* "failed": the constructor threw; "crashed": a callback threw
    separator,    \* this.separator
    fs,           \* the watched directory: filename -> state of that entry
    languages,    \* this.languages: locale -> flat map (key -> string)
    debounceMap,  \* this.debounceMap: filename -> timer id
    timers,       \* the runtime's armed timers (setTimeout not yet fired or cleared)
    burst,        \* observer: notifications of the filename's current/last burst
    runs,         \* observer: timer callbacks run for the filename's current/last burst
    outcome,      \* observer: what the filename's last timer callback did
    sinceFirst,   \* observer: ms since the first notification of the pending burst
    sinceLast,    \* observer: ms since the latest notification of the pending burst
    events        \* observer: the event kinds of the notifications of the
                  \* filename's current/last burst, where they are recorded

vars == <<phase, separator, fs, languages, debounceMap, timers,
          burst, runs, outcome, sinceFirst, sinceLast, events>>

(***************************************************************************)
(* Strings                                                                 *)
(***************************************************************************)
Dot == <<".">>
DotJson == <<".", "j", "s", "o", "n">>
EnJson == <<"e", "n">> \o DotJson
FrJson == <<"f", "r">> \o DotJson
NotesTxt == <<"a", ".", "t", "x", "t">>
\* fs.watch may pass a null filename; like '' it is falsy
NoName == <<>>

En == <<"e", "n">>
Fr == <<"f", "r">>
De == <<"d", "e">>

DigitChars == <<"0", "1", "2", "3", "4", "5", "6", "7", "8", "9">>

\* \w of the placeholder pattern: [A-Za-z0-9_]
WordChars ==
    {"a", "b", "c", "d", "e", "f", "g", "h", "i", "j", "k", "l", "m",
     "n", "o", "p", "q", "r", "s", "t", "u", "v", "w", "x", "y", "z",
     "A", "B", "C", "D", "E", "F", "G", "H", "I", "J", "K", "L", "M",
     "N", "O", "P", "Q", "R", "S", "T", "U", "V", "W", "X", "Y", "Z",
     "0", "1", "2", "3", "4", "5", "6", "7", "8", "9", "_"}

\* String.prototype.endsWith
EndsWith(s, suffix) ==
    /\ Len(s) >= Len(suffix)
    /\ SubSeq(s, Len(s) - Len(suffix) + 1, Len(s)) = suffix

\* path.basename(name, ext) of a name without directory part
Basename(name, ext) ==
    IF EndsWith(name, ext) THEN SubSeq(name, 1, Len(name) - Len(ext)) ELSE name

\* whether sub occurs in s
Contains(s, sub) ==
    \E i \in 1..(Len(s) - Len(sub) + 1) : SubSeq(s, i, i + Len(sub) - 1) = sub

RECURSIVE Digits(_)
\* String(n) of a non-negative integer
Digits(n) ==
    IF n < 10 THEN <<DigitChars[n + 1]>>
    ELSE Digits(n \div 10) \o <<DigitChars[(n % 10) + 1]>>

RECURSIVE Join(_, _)
\* Array.prototype.join on a sequence of strings
Join(parts, glue) ==
    IF Len(parts) = 0 THEN <<>>
    ELSE IF Len(parts) = 1 THEN parts[1]
    ELSE parts[1] \o glue \o Join(Tail(parts), glue)

(***************************************************************************)
(* JSON values (the result of JSON.parse, and the values of args)          *)
(***************************************************************************)
JStr(s) == [t |-> "str", s |-> s, n |-> 0, a |-> <<>>, o |-> <<>>]
JNum(n) == [t |-> "num", s |-> <<>>, n |-> n, a |-> <<>>, o |-> <<>>]
JBool(b) == [t |-> "bool", s |-> <<>>, n |-> IF b THEN 1 ELSE 0, a |-> <<>>, o |-> <<>>]
JNull == [t |-> "null", s |-> <<>>, n |-> 0, a |-> <<>>, o |-> <<>>]
\* an array: its elements in order
JArr(a) == [t |-> "arr", s |-> <<>>, n |-> 0, a |-> a, o |-> <<>>]
\* an object: its own properties <<key, value>> in enumeration order
JObj(o) == [t |-> "obj", s |-> <<>>, n |-> 0, a |-> <<>>, o |-> o]

ObjectObject ==
    <<"[", "o", "b", "j", "e", "c", "t", " ", "O", "b", "j", "e", "c", "t", "]">>

RECURSIVE JsString(_)
\* String(v)
JsString(v) ==
    CASE v.t = "str" -> v.s
      [] v.t = "num" -> Digits(v.n)
      [] v.t = "bool" -> IF v.n = 1 THEN <<"t", "r", "u", "e">>
                         ELSE <<"f", "a", "l", "s", "e">>
      [] v.t = "null" -> <<"n", "u", "l", "l">>
      [] v.t = "arr" ->
           Join([i \in 1..Len(v.a) |->
                    IF v.a[i].t = "null" THEN <<>> ELSE JsString(v.a[i])],
                <<",">>)
      [] OTHER -> ObjectObject

\* String(v), without the ?? ''
StringNoCoalesce(v) == JsString(v)

\* String(v ?? '')
StringOrEmpty(v) == IF v.t = "null" THEN <<>> ELSE JsString(v)

(***************************************************************************)
(* Maps with string keys (null-prototype objects)                          *)
(***************************************************************************)
EmptyMap == [k \in {} |-> <<>>]
Has(m, k) == k \in DOMAIN m
Put(m, k, v) == [x \in (DOMAIN m) \cup {k} |-> IF x = k THEN v ELSE m[x]]
Remove(m, k) == [x \in (DOMAIN m) \ {k} |-> m[x]]
\* Object.assign(target, source)
Assign(target, source) ==
    [x \in (DOMAIN target) \cup (DOMAIN source) |->
        IF x \in DOMAIN source THEN source[x] ELSE target[x]]

(***************************************************************************)
(* _flatten                                                                *)
(***************************************************************************)
\* Object.entries(v) of a non-null value
Entries(v) ==
    CASE v.t = "obj" -> v.o
      [] v.t = "arr" -> [i \in 1..Len(v.a) |-> <<Digits(i - 1), v.a[i]>>]
      [] v.t = "str" -> [i \in 1..Len(v.s) |-> <<Digits(i - 1), JStr(<<v.s[i]>>)>>]
      [] OTHER -> <<>>

\* Object.entries(null) throws a TypeError
FlattenThrows(obj) == obj.t = "null"

RECURSIVE Flatten(_, _, _)
RECURSIVE FlattenLoop(_, _, _, _, _)
\* the for-loop of _flatten from entry i on, with the result so far
FlattenLoop(es, sep, parentKey, i, result) ==
    IF i > Len(es) THEN result
    ELSE LET key == es[i][1]
             value == es[i][2]
             fullKey == IF parentKey # <<>> THEN parentKey \o sep \o key ELSE key
         IN  FlattenLoop(es, sep, parentKey, i + 1,
                 IF value.t = "obj"
                 THEN Assign(result, Flatten(value, sep, fullKey))
                 ELSE Put(result, fullKey, StringOrEmpty(value)))

Flatten(obj, sep, parentKey) == FlattenLoop(Entries(obj), sep, parentKey, 1, EmptyMap)

(***************************************************************************)
(* _replacePlaceholders                                                    *)
(***************************************************************************)
\* the index after the run of \w characters that starts at i
RECURSIVE WordEnd(_, _)
WordEnd(s, i) ==
    IF i <= Len(s) /\ s[i] \in WordChars THEN WordEnd(s, i + 1) ELSE i

\* a replacer that drops the tokens args does not hold
ReplacementDropsMissing(match, key, values) ==
    IF ~Has(values, key) THEN <<>>
    ELSE LET value == values[key]
         IN  IF value.t = "arr"
             THEN Join([i \in 1..Len(value.a) |-> StringOrEmpty(value.a[i])],
                       <<",", " ">>)
             ELSE StringOrEmpty(value)

\* the replacer callback: the text put in place of the token {key}
Replacement(match, key, values) ==
    IF ~Has(values, key) THEN match
    ELSE LET value == values[key]
         IN  IF value.t = "arr"
             THEN Join([i \in 1..Len(value.a) |-> StringOrEmpty(value.a[i])],
                       <<",", " ">>)
             ELSE StringOrEmpty(value)

\* template.replace(/{(\w+)}/g, callback), scanning from index i
RECURSIVE ReplaceFrom(_, _, _)
ReplaceFrom(template, values, i) ==
    IF i > Len(template) THEN <<>>
    ELSE LET j == WordEnd(template, i + 1)
         IN  IF /\ template[i] = "{"
                /\ j > i + 1
                /\ j <= Len(template)
                /\ template[j] = "}"
             THEN Replacement(SubSeq(template, i, j),
                              SubSeq(template, i + 1, j - 1), values)
                  \o ReplaceFrom(template, values, j + 1)
             ELSE <<template[i]>> \o ReplaceFrom(template, values, i + 1)

ReplacePlaceholders(template, values) ==
    IF DOMAIN values = {} THEN template ELSE ReplaceFrom(template, values, 1)

(***************************************************************************)
(* The directory                                                           *)
(***************************************************************************)
\* the state of one directory entry, as statSync, readFileSync and
\* JSON.parse see it
FileState(kind, json) == [kind |-> kind, json |-> json]
Absent == FileState("absent", JNull)          \* statSync: ENOENT
NoAccess == FileState("noaccess", JNull)      \* statSync: an error other than ENOENT
Garbage == FileState("garbage", JNull)        \* read succeeds, JSON.parse throws
Parsed(json) == FileState("json", json)       \* JSON.parse returns json

\* {"g": "H{x}", "b": {"c": "C"}}
TreeA == JObj(<< <<<<"g">>, JStr(<<"H", "{", "x", "}">>)>>,
                 <<<<"b">>, JObj(<< <<<<"c">>, JStr(<<"C">>)>> >>)>> >>)
\* {}
TreeEmpty == JObj(<<>>)

JsonFiles == {EnJson, FrJson}
Files == JsonFiles \cup {NotesTxt}
\* what the watcher may report: the entries, and no filename at all
Reported == Files \cup {NoName}
EventKinds == {"change", "rename"}

FileStates == {Absent, NoAccess, Garbage, Parsed(JNull), Parsed(TreeA), Parsed(TreeEmpty)}
\* the states explored for each entry: every one for en.json, three for
\* fr.json, and a.txt is always there and holds valid JSON
StatesOf(f) ==
    CASE f = EnJson -> FileStates
      [] f = FrJson -> {Absent, Garbage, Parsed(TreeA)}
      [] OTHER -> {Parsed(TreeA)}

\* statSync(path.join(this.path, filename)): "ok" or the error's code
StatSync(filename) ==
    CASE fs[filename].kind = "absent" -> "ENOENT"
      [] fs[filename].kind = "noaccess" -> "EACCES"
      [] OTHER -> "ok"

ReadThrows(filename) == fs[filename].kind \notin {"garbage", "json"}
ParseThrows(filename) == fs[filename].kind # "json"

\* readdirSync(this.path): the entries, in any order
Listings ==
    LET present == {f \in Files : fs[f].kind # "absent"}
    IN  {l \in [1..Cardinality(present) -> present] :
            \A i, j \in DOMAIN l : l[i] = l[j] => i = j}

(***************************************************************************)
(* _loadFile, loadLanguages, get                                           *)
(***************************************************************************)
\* this.languages after _loadFile(filename) run on the table langs
\* whether the try block of _loadFile throws
LoadThrows(filename) ==
    \/ ReadThrows(filename)
    \/ ParseThrows(filename)
    \/ FlattenThrows(fs[filename].json)

\* _loadFile without line 104: a failed load keeps the previous entry
LoadFileKeepsOld(langs, filename) ==
    LET locale == Basename(filename, DotJson)
    IN  IF LoadThrows(filename)
        THEN langs
        ELSE Put(langs, locale, Flatten(fs[filename].json, separator, <<>>))

\* _loadFile merging the new flat map into the old one
LoadFileMerges(langs, filename) ==
    LET locale == Basename(filename, DotJson)
        fresh == Flatten(fs[filename].json, separator, <<>>)
    IN  IF LoadThrows(filename)
        THEN Remove(langs, locale)
        ELSE Put(langs, locale,
                 IF Has(langs, locale) THEN Assign(langs[locale], fresh) ELSE fresh)

\* this.languages after _loadFile(filename) run on the table langs
LoadFile(langs, filename) ==
    LET locale == Basename(filename, DotJson)
    IN  IF LoadThrows(filename)
        THEN Remove(langs, locale)
        ELSE Put(langs, locale, Flatten(fs[filename].json, separator, <<>>))

RECURSIVE LoadLanguagesStopsAtFailure(_, _, _)
\* a loop that the first failing file ends: the error is caught around the
\* loop only, and the files listed after it are not loaded
LoadLanguagesStopsAtFailure(langs, files, i) ==
    IF i > Len(files) THEN langs
    ELSE IF EndsWith(files[i], DotJson) /\ LoadThrows(files[i])
    THEN Remove(langs, Basename(files[i], DotJson))
    ELSE LoadLanguagesStopsAtFailure(
             IF EndsWith(files[i], DotJson) THEN LoadFile(langs, files[i]) ELSE langs,
             files, i + 1)

\* the error the try block of _loadFile(filename) raises, "none" if none
LoadError(filename) ==
    CASE ReadThrows(filename) ->
           IF fs[filename].kind = "absent" THEN "ENOENT" ELSE "EACCES"
      [] ParseThrows(filename) -> "SyntaxError"
      [] FlattenThrows(fs[filename].json) -> "TypeError"
      [] OTHER -> "none"

\* what the catch of _loadFile throws for an error: it reports, deletes the
\* entry and throws nothing
LoadFileCatch(error) == "none"

\* the error that leaves _loadFile(filename)
LoadFileRaises(filename) ==
    IF LoadError(filename) = "none" THEN "none" ELSE LoadFileCatch(LoadError(filename))

\* what the catch of loadLanguages throws for an error: it only reports
LoadLanguagesCatch(error) == "none"

\* the error that leaves loadLanguages: the first one a file of the listing
\* lets out of _loadFile goes to the catch of loadLanguages
LoadLanguagesRaises(files) ==
    LET failing == {i \in DOMAIN files :
                       EndsWith(files[i], DotJson) /\ LoadFileRaises(files[i]) # "none"}
    IN  IF failing = {} THEN "none"
        ELSE LoadLanguagesCatch(
                 LoadFileRaises(files[CHOOSE i \in failing : \A j \in failing : i <= j]))

RECURSIVE LoadLanguagesFrom(_, _, _)
\* the loop of loadLanguages over the listing, from entry i on
LoadLanguagesFrom(langs, files, i) ==
    IF i > Len(files) THEN langs
    ELSE LoadLanguagesFrom(
             IF EndsWith(files[i], DotJson) THEN LoadFile(langs, files[i]) ELSE langs,
             files, i + 1)

LoadLanguages(files) == LoadLanguagesFrom(EmptyMap, files, 1)

LocaleNotFound(locale) ==
    <<"L", "o", "c", "a", "l", "e", " ", "'">> \o locale
    \o <<"'", " ", "n", "o", "t", " ", "f", "o", "u", "n", "d">>

\* get taking a locale without translations for a missing one
GetThrowsOnEmpty(locale, key, args) ==
    IF ~Has(languages, locale) \/ DOMAIN languages[locale] = {}
    THEN [throws |-> TRUE, value |-> LocaleNotFound(locale)]
    ELSE LET translations == languages[locale]
             template == IF Has(translations, key) THEN translations[key] ELSE key
         IN  [throws |-> FALSE, value |-> ReplacePlaceholders(template, args)]

\* get(locale, key, args): what it returns, or the message of what it throws.
\* this.languages[locale] is undefined or a flat map, and an object is truthy.
Get(locale, key, args) ==
    IF ~Has(languages, locale)
    THEN [throws |-> TRUE, value |-> LocaleNotFound(locale)]
    ELSE LET translations == languages[locale]
             template == IF Has(translations, key) THEN translations[key] ELSE key
         IN  [throws |-> FALSE, value |-> ReplacePlaceholders(template, args)]

(***************************************************************************)
(* The state machine                                                       *)
(***************************************************************************)
debounceDelay == 100
\* the granularity of the clock: notifications and timers fall on multiples of it
Quantum == debounceDelay \div 2
\* the longest burst of notifications for one filename that is explored
MaxBurst == 2

\* the inputs of get that are explored
Locales == {En, Fr, De}
KeyG == <<"g">>
KeyBC == <<"b", ".", "c">>
KeyToken == <<"{", "x", "}">>
Keys == {KeyG, KeyBC, KeyToken}
NoArgs == EmptyMap
ArgsX == Put(EmptyMap, <<"x">>, JStr(<<"A">>))
ArgSets == {NoArgs, ArgsX}

Pending(filename) == Has(debounceMap, filename)
Armed(filename) == {t \in timers : t.filename = filename}

\* setTimeout's handle, distinct from the handle of every armed timer: the
\* filename with the smallest number no armed timer of that filename holds
NewTimerId(armed, filename) ==
    LET used == {t.id[2] : t \in {u \in armed : u.filename = filename}}
    IN  <<filename, CHOOSE n \in 1..(Cardinality(used) + 1) :
                        n \notin used /\ \A m \in 1..(n - 1) : m \in used>>

\* a clearTimeout that cancels every armed timer
ClearTimeoutAll(armed, id) == {}

\* the listener without its clearTimeout
ClearTimeoutNoop(armed, id) == armed

\* the timers left armed by clearTimeout(id)
ClearTimeout(armed, id) == {t \in armed : t.id # id}

\* a restart that keeps the deadline of the timer it replaces
SetTimeoutKeepsDeadline(id, event, filename) ==
    [id |-> id, event |-> event, filename |-> filename,
     left |-> IF Armed(filename) # {}
              THEN (CHOOSE t \in Armed(filename) : TRUE).left
              ELSE debounceDelay]

\* a restart whose callback keeps the event kind of the timer it replaces
SetTimeoutKeepsEvent(id, event, filename) ==
    [id |-> id,
     event |-> IF Armed(filename) # {}
               THEN (CHOOSE t \in Armed(filename) : TRUE).event
               ELSE event,
     filename |-> filename, left |-> debounceDelay]

\* the timer setTimeout(callback, this.debounceDelay) arms; the callback
\* closes over event and filename
SetTimeout(id, event, filename) ==
    [id |-> id, event |-> event, filename |-> filename, left |-> debounceDelay]

\* the listener without its test of the extension
IsLanguageFileAnyName(filename) == filename # NoName

\* the listener's test of the filename
IsLanguageFile(filename) == filename # NoName /\ EndsWith(filename, DotJson)

\* a listener that registers the first timer of a burst only
OnWatchKeepsFirstId(event, filename) ==
    IF IsLanguageFile(filename)
    THEN LET kept == IF Has(debounceMap, filename)
                     THEN ClearTimeout(timers, debounceMap[filename])
                     ELSE timers
             timeout == SetTimeout(NewTimerId(timers, filename), event, filename)
         IN  [debounceMap |-> IF Has(debounceMap, filename) THEN debounceMap
                              ELSE Put(debounceMap, filename, timeout.id),
              timers |-> kept \cup {timeout}]
    ELSE [debounceMap |-> debounceMap, timers |-> timers]

\* this.debounceMap and the armed timers after the fs.watch listener has
\* run with (event, filename)
OnWatch(event, filename) ==
    IF IsLanguageFile(filename)
    THEN LET kept == IF Has(debounceMap, filename)
                     THEN ClearTimeout(timers, debounceMap[filename])
                     ELSE timers
             timeout == SetTimeout(NewTimerId(kept, filename), event, filename)
         IN  [debounceMap |-> Put(debounceMap, filename, timeout.id),
              timers |-> kept \cup {timeout}]
    ELSE [debounceMap |-> debounceMap, timers |-> timers]

\* a catch that throws every error other than not-found again, as the
\* constructor's does
SwitchCatchRethrows(error) == IF error = "ENOENT" THEN "none" ELSE error

\* what the catch of a case of the switch throws for an error: both of its
\* branches only report
SwitchCatch(error) == "none"

\* the error that leaves the timer callback: debounceMap.delete throws none,
\* and statSync and _loadFile run in the try block of their case
CallbackRaises(event, filename) ==
    LET raised == IF StatSync(filename) # "ok" THEN StatSync(filename)
                  ELSE LoadFileRaises(filename)
    IN  IF event \in {"change", "rename"} /\ raised # "none"
        THEN SwitchCatch(raised)
        ELSE "none"

\* a callback that takes every statSync error for a deleted file
ReconcileEvictsOnAnyError(langs, event, filename) ==
    LET locale == Basename(filename, DotJson)
        stat == StatSync(filename)
        loaded == [languages |-> LoadFile(langs, filename),
                   outcome |-> IF LoadThrows(filename) THEN "loadfail" ELSE "reload"]
    IN  CASE event = "change" ->
               IF stat = "ok" THEN loaded
               ELSE [languages |-> langs, outcome |-> "ignored"]
          [] event = "rename" ->
               IF stat = "ok" THEN loaded
               ELSE [languages |-> Remove(langs, locale), outcome |-> "evict"]
          [] OTHER -> [languages |-> langs, outcome |-> "none"]

\* this.languages after the switch of the timer callback, and what was done:
\* "reload" (_loadFile stored the file), "loadfail" (_loadFile caught an
\* error), "evict" (delete), "ignored" ('change' of a deleted file),
\* "staterr" (statSync failed otherwise), "none" (no case of the switch)
Reconcile(langs, event, filename) ==
    LET locale == Basename(filename, DotJson)
        stat == StatSync(filename)
        loaded == [languages |-> LoadFile(langs, filename),
                   outcome |-> IF LoadThrows(filename) THEN "loadfail" ELSE "reload"]
    IN  CASE event = "change" ->
               IF stat = "ok" THEN loaded
               ELSE IF stat = "ENOENT"
               THEN [languages |-> langs, outcome |-> "ignored"]
               ELSE [languages |-> langs, outcome |-> "staterr"]
          [] event = "rename" ->
               IF stat = "ok" THEN loaded
               ELSE IF stat = "ENOENT"
               THEN [languages |-> Remove(langs, locale), outcome |-> "evict"]
               ELSE [languages |-> langs, outcome |-> "staterr"]
          [] OTHER -> [languages |-> langs, outcome |-> "none"]

Init ==
    /\ phase = "new"
    /\ separator = Dot
    /\ fs \in {f \in [Files -> FileStates] : \A x \in Files : f[x] \in StatesOf(x)}
    /\ languages = EmptyMap
    /\ debounceMap = EmptyMap
    /\ timers = {}
    /\ burst = [f \in JsonFiles |-> 0]
    /\ runs = [f \in JsonFiles |-> 0]
    /\ outcome = [f \in JsonFiles |-> "none"]
    /\ sinceFirst = [f \in JsonFiles |-> 0]
    /\ sinceLast = [f \in JsonFiles |-> 0]
    /\ events = [f \in JsonFiles |-> <<>>]

\* new LanguageManager(dirPath, separator) on a valid directory
Construct ==
    /\ phase = "new"
    /\ \E files \in Listings :
           /\ languages' = LoadLanguages(files)
           /\ phase' = IF LoadLanguagesRaises(files) = "none" THEN "ready" ELSE "failed"
    /\ UNCHANGED <<separator, fs, debounceMap, timers,
                   burst, runs, outcome, sinceFirst, sinceLast, events>>

\* another process creates, rewrites, deletes or protects a language file
FsWrite(filename, state) ==
    /\ phase = "ready"
    /\ state # fs[filename]
    /\ fs' = [fs EXCEPT ![filename] = state]

\* the fs.watch listener runs with (event, filename)
Watched(event, filename) ==
    /\ phase = "ready"
    /\ (IsLanguageFile(filename) /\ Pending(filename)) => burst[filename] < MaxBurst
    /\ timers' = OnWatch(event, filename).timers
    /\ debounceMap' = OnWatch(event, filename).debounceMap
    /\ IF IsLanguageFile(filename)
       THEN /\ burst' = [burst EXCEPT ![filename] =
                            IF Pending(filename) THEN @ + 1 ELSE 1]
            /\ runs' = [runs EXCEPT ![filename] =
                            IF Pending(filename) THEN @ ELSE 0]
            /\ outcome' = [outcome EXCEPT ![filename] =
                            IF Pending(filename) THEN @ ELSE "none"]
            /\ sinceFirst' = [sinceFirst EXCEPT ![filename] =
                            IF Pending(filename) THEN @ ELSE 0]
            /\ sinceLast' = [sinceLast EXCEPT ![filename] = 0]
       ELSE UNCHANGED <<burst, runs, outcome, sinceFirst, sinceLast>>

\* a change on disk that the watcher does not (or not yet) report
FsChange(filename, state) ==
    /\ FsWrite(filename, state)
    /\ UNCHANGED <<phase, separator, languages, debounceMap, timers,
                   burst, runs, outcome, sinceFirst, sinceLast, events>>

\* a listener that reconciles at once as well as arming the timer
NotifyReloadsAtOnce(event, filename) ==
    /\ Watched(event, filename)
    /\ languages' = IF IsLanguageFile(filename)
                     THEN Reconcile(languages, event, filename).languages
                     ELSE languages
    /\ UNCHANGED <<phase, separator, fs, events>>

\* a notification, whether or not the entry has changed
Notify(event, filename) ==
    /\ Watched(event, filename)
    /\ UNCHANGED <<phase, separator, fs, languages, events>>

\* the same notification, with its event kind recorded
NotifyRecorded(event, filename) ==
    /\ Watched(event, filename)
    /\ events' = IF IsLanguageFile(filename)
                  THEN [events EXCEPT ![filename] =
                           IF Pending(filename) THEN Append(@, event) ELSE <<event>>]
                  ELSE events
    /\ UNCHANGED <<phase, separator, fs, languages>>

\* a change on disk that the watcher reports at once
ChangeNotified(filename, state, event) ==
    /\ FsWrite(filename, state)
    /\ Watched(event, filename)
    /\ UNCHANGED <<phase, separator, languages, events>>

\* time passes, up to the next deadline at most: a due timer fires first
Tick ==
    /\ phase = "ready"
    /\ timers # {}
    /\ \A t \in timers : t.left >= Quantum
    /\ timers' = {[t EXCEPT !.left = @ - Quantum] : t \in timers}
    /\ sinceFirst' = [f \in JsonFiles |->
                        IF Pending(f) THEN sinceFirst[f] + Quantum ELSE sinceFirst[f]]
    /\ sinceLast' = [f \in JsonFiles |->
                        IF Pending(f) THEN sinceLast[f] + Quantum ELSE sinceLast[f]]
    /\ UNCHANGED <<phase, separator, fs, languages, debounceMap,
                   burst, runs, outcome, events>>

\* a delete that removes nothing
MapDeleteNoop(map, key) == map

\* Map.prototype.delete
MapDelete(map, key) == Remove(map, key)

\* the callback of a due timer; an error that leaves it ends the process
TimerFires(t) ==
    /\ phase = "ready"
    /\ t \in timers
    /\ t.left = 0
    /\ phase' = IF CallbackRaises(t.event, t.filename) = "none" THEN phase ELSE "crashed"
    /\ timers' = timers \ {t}
    /\ debounceMap' = MapDelete(debounceMap, t.filename)
    /\ languages' = Reconcile(languages, t.event, t.filename).languages
    /\ outcome' = [outcome EXCEPT ![t.filename] =
                      Reconcile(languages, t.event, t.filename).outcome]
    /\ runs' = [runs EXCEPT ![t.filename] = @ + 1]
    /\ sinceFirst' = [sinceFirst EXCEPT ![t.filename] = 0]
    /\ sinceLast' = [sinceLast EXCEPT ![t.filename] = 0]
    /\ UNCHANGED <<separator, fs, burst, events>>

\* the watcher's 'error' listener only reports the error
WatcherError ==
    /\ phase = "ready"
    /\ UNCHANGED vars

\* a caller looks a translation up: get returns or throws, and writes nothing
GetCall(locale, key, args) ==
    /\ phase = "ready"
    /\ Get(locale, key, args).throws \in BOOLEAN
    /\ UNCHANGED vars

Next ==
    \/ Construct
    \/ \E f \in JsonFiles : \E st \in StatesOf(f) : FsChange(f, st)
    \/ \E e \in EventKinds, f \in Reported : Notify(e, f)
    \/ Tick
    \/ \E t \in timers : TimerFires(t)
    \/ WatcherError
    \/ \E l \in Locales, k \in Keys, a \in ArgSets : GetCall(l, k, a)

Spec == Init /\ [][Next]_vars

\* the same manager in a directory whose every change the watcher reports
NextNotified ==
    \/ Construct
    \/ \E f \in JsonFiles : \E st \in StatesOf(f) : \E e \in EventKinds :
           ChangeNotified(f, st, e)
    \/ \E e \in EventKinds, f \in Reported : Notify(e, f)
    \/ Tick
    \/ \E t \in timers : TimerFires(t)
    \/ WatcherError
    \/ \E l \in Locales, k \in Keys, a \in ArgSets : GetCall(l, k, a)

SpecNotified == Init /\ [][NextNotified]_vars

\* the states of en.json explored under fair scheduling; fr.json stays as it is
FairStates == {Absent, NoAccess, Parsed(TreeA)}
\* the event kinds explored there: fs.watch's two, and one that no case of
\* the callback's switch names
FairEvents == EventKinds \cup {"other"}

InitFair ==
    /\ phase = "new"
    /\ separator = Dot
    /\ \E st \in FairStates :
           fs = [f \in Files |-> IF f = EnJson THEN st ELSE Parsed(TreeA)]
    /\ languages = EmptyMap
    /\ debounceMap = EmptyMap
    /\ timers = {}
    /\ burst = [f \in JsonFiles |-> 0]
    /\ runs = [f \in JsonFiles |-> 0]
    /\ outcome = [f \in JsonFiles |-> "none"]
    /\ sinceFirst = [f \in JsonFiles |-> 0]
    /\ sinceLast = [f \in JsonFiles |-> 0]
    /\ events = [f \in JsonFiles |-> <<>>]

\* the steps that change the state: those of get and of the watcher's error
\* listener change nothing
NextFair ==
    \/ Construct
    \/ \E st \in FairStates : FsChange(EnJson, st)
    \/ \E e \in FairEvents, f \in Reported : Notify(e, f)
    \/ Tick
    \/ \E t \in timers : TimerFires(t)

\* the same manager in a runtime where time goes on and the event loop runs
\* the callback of every due timer
SpecFair ==
    /\ InitFair /\ [][NextFair]_vars
    /\ WF_vars(Tick)
    /\ \A f \in JsonFiles : WF_vars(\E t \in Armed(f) : TimerFires(t))

\* the same manager with the event kind of every notification recorded
NextBursts ==
    \/ Construct
    \/ \E st \in FairStates : FsChange(EnJson, st)
    \/ \E e \in EventKinds, f \in Reported : NotifyRecorded(e, f)
    \/ Tick
    \/ \E t \in timers : TimerFires(t)

SpecBursts == InitFair /\ [][NextBursts]_vars

(***************************************************************************)
(* The manager constructed on one language file, en.json, whose content    *)
(* ranges over a set of trees, with a separator of the caller's choice     *)
(***************************************************************************)
\* the most entries of the root map of a tree
MaxWidth == 2

Slash == <<"/">>
Separators == {Dot, Slash}

LeafValues ==
    {JStr(<<"v">>), JNull, JNum(7), JBool(TRUE),
     JArr(<<JNum(1), JNull, JStr(<<"b">>)>>)}
RootKeys == {<<"a">>, <<"a", ".", "b">>, <<>>}
NestedKeys == {<<"a">>, <<"b">>, <<>>}
\* what a nested map holds: a string, or a map of one string
NestedValues == {JStr(<<"v">>), JObj(<< <<<<"b">>, JStr(<<"w">>)>> >>)}

\* the maps of at most width entries with distinct keys, in every order
MapsOver(keys, values, width) ==
    UNION {{JObj([i \in 1..n |-> <<ks[i], vs[i]>>]) :
               ks \in {k \in [1..n -> keys] : \A i, j \in 1..n : k[i] = k[j] => i = j},
               vs \in [1..n -> values]} :
           n \in 0..width}

NestedMaps == MapsOver(NestedKeys, NestedValues, 1)
\* the trees: a root map of at most width entries, in every order
Trees(width) == MapsOver(RootKeys, LeafValues \cup NestedMaps, width)

InitTrees ==
    /\ phase = "new"
    /\ separator \in Separators
    /\ \E tree \in Trees(MaxWidth) :
           fs = [f \in Files |-> CASE f = EnJson -> Parsed(tree)
                                   [] f = FrJson -> Absent
                                   [] OTHER -> Parsed(TreeA)]
    /\ languages = EmptyMap
    /\ debounceMap = EmptyMap
    /\ timers = {}
    /\ burst = [f \in JsonFiles |-> 0]
    /\ runs = [f \in JsonFiles |-> 0]
    /\ outcome = [f \in JsonFiles |-> "none"]
    /\ sinceFirst = [f \in JsonFiles |-> 0]
    /\ sinceLast = [f \in JsonFiles |-> 0]
    /\ events = [f \in JsonFiles |-> <<>>]

NextTrees ==
    \/ Construct
    \/ \E k \in Keys, a \in ArgSets : GetCall(En, k, a)

SpecTrees == InitTrees /\ [][NextTrees]_vars

(***************************************************************************)
(* The manager constructed on one language file, en.json, that holds one   *)
(* template under the key g, the template ranging over short strings       *)
(***************************************************************************)
\* the longest template
MaxLen == 5

TemplateChars == {"{", "}", "x", "-"}
Templates(len) == UNION {[1..n -> TemplateChars] : n \in 0..len}

\* the args of get that are explored: scalars, null, and arrays
KeyX == <<"x">>
KeyY == <<"y">>
ArgsY == Put(EmptyMap, KeyY, JNum(7))
ArgsToken == Put(EmptyMap, KeyX, JStr(<<"{", "x", "}">>))
ArgsNull == Put(EmptyMap, KeyX, JNull)
ArgsList == Put(EmptyMap, KeyX, JArr(<<JNum(1), JNull, JStr(<<"b">>), JBool(FALSE)>>))
ArgsNested ==
    Put(EmptyMap, KeyX, JArr(<<JNum(1), JObj(<<>>), JArr(<<JNum(2), JNum(3)>>)>>))
ScalarArgs == {NoArgs, ArgsX, ArgsY, ArgsToken}
TemplateArgs == ScalarArgs \cup {ArgsNull, ArgsList, ArgsNested}

InitTemplates ==
    /\ phase = "new"
    /\ separator = Dot
    /\ \E template \in Templates(MaxLen) :
           fs = [f \in Files |->
                    CASE f = EnJson -> Parsed(JObj(<< <<KeyG, JStr(template)>> >>))
                      [] f = FrJson -> Absent
                      [] OTHER -> Parsed(TreeA)]
    /\ languages = EmptyMap
    /\ debounceMap = EmptyMap
    /\ timers = {}
    /\ burst = [f \in JsonFiles |-> 0]
    /\ runs = [f \in JsonFiles |-> 0]
    /\ outcome = [f \in JsonFiles |-> "none"]
    /\ sinceFirst = [f \in JsonFiles |-> 0]
    /\ sinceLast = [f \in JsonFiles |-> 0]
    /\ events = [f \in JsonFiles |-> <<>>]

NextTemplates ==
    \/ Construct
    \/ \E a \in TemplateArgs : GetCall(En, KeyG, a)

SpecTemplates == InitTemplates /\ [][NextTemplates]_vars

(***************************************************************************)
(* Properties                                                              *)
(***************************************************************************)
LocaleOf(filename) == Basename(filename, DotJson)

\* the step is the callback of filename's timer
Fired(filename) == runs'[filename] = runs[filename] + 1

\* C1: get throws LocaleNotFound, with a message that names the locale, if
\* and only if this.languages has no entry for the locale; with an entry,
\* even an empty one, it returns a string.
C1_NotFoundIffNoEntry ==
    phase = "ready" =>
        \A l \in Locales, k \in Keys, a \in ArgSets :
            LET r == Get(l, k, a)
            IN  /\ r.throws <=> ~Has(languages, l)
                /\ r.throws => Contains(r.value, l)
                /\ r.value \in Seq(STRING)

\* en is loaded with an empty flat map and fr was removed by a timer callback
C1_Witness ==
    /\ phase = "ready"
    /\ Has(languages, En) /\ DOMAIN languages[En] = {}
    /\ ~Get(En, KeyG, NoArgs).throws
    /\ outcome[FrJson] = "evict" /\ ~Has(languages, Fr)
    /\ Get(Fr, KeyG, NoArgs).throws
    /\ Get(De, KeyG, ArgsX) = [throws |-> TRUE, value |-> LocaleNotFound(De)]

\* C2: for a loaded locale, a key absent from its flat map and any args, get
\* returns exactly the key.
C2_MissingKeyReturnsKey ==
    phase = "ready" =>
        \A l \in DOMAIN languages, k \in Keys, a \in ArgSets :
            ~Has(languages[l], k) => Get(l, k, a) = [throws |-> FALSE, value |-> k]

\* C3: the notifications of one burst for a filename (each arriving while the
\* previous one's timer is armed) lead to exactly one timer callback: one
\* timer is armed while the filename is pending and none after, no callback
\* has run while it is pending and exactly one when the burst is over.
C3_OneCallbackPerBurst ==
    \A f \in JsonFiles :
        /\ Cardinality(Armed(f)) = IF Pending(f) THEN 1 ELSE 0
        /\ Pending(f) => runs[f] = 0 /\ outcome[f] = "none"
        /\ (~Pending(f) /\ burst[f] >= 1) => runs[f] = 1 /\ outcome[f] # "none"

\* a burst of two notifications for en.json is over and has reloaded once
C3_Witness ==
    /\ ~Pending(EnJson)
    /\ burst[EnJson] = 2
    /\ runs[EnJson] = 1
    /\ outcome[EnJson] = "reload"

\* C4: whenever a timer fires and statSync reports the file as not found, the
\* locale's entry is removed, whichever the event kind of the notification.
C4_AbsentAtFireEvicts ==
    [][\A f \in JsonFiles :
          (Fired(f) /\ StatSync(f) = "ENOENT") => ~Has(languages', LocaleOf(f))]_vars

\* C5 as claimed: a reload that fails to read or parse leaves this.languages
\* as it was.
C5_FailedReloadKeepsEntry ==
    [][\A f \in JsonFiles :
          (Fired(f) /\ StatSync(f) = "ok" /\ (ReadThrows(f) \/ ParseThrows(f)))
              => languages' = languages]_vars

\* C5 as amended: a reload that fails (the read, the parse or the flattening
\* throws) leaves the locale without entry and every other entry as it was.
C5_FailedReloadRemovesEntry ==
    [][\A f \in JsonFiles :
          (Fired(f) /\ StatSync(f) = "ok" /\ LoadThrows(f))
              => languages' = Remove(languages, LocaleOf(f))]_vars

\* the reload of an unparsable en.json has run: en is gone, fr is still there
C5_Witness ==
    /\ outcome[EnJson] = "loadfail"
    /\ fs[EnJson] = Garbage
    /\ ~Has(languages, En)
    /\ Has(languages, Fr)

\* C6 as claimed: whenever a timer fires and the file exists and parses, the
\* locale's entry is afterwards the flattening of the file's content and no
\* other entry changes, whichever the event kind.
C6_FireReloadsParsedFile ==
    [][\A f \in JsonFiles :
          (Fired(f) /\ StatSync(f) = "ok" /\ ~ParseThrows(f))
              => /\ Has(languages', LocaleOf(f))
                 /\ languages' = Put(languages, LocaleOf(f),
                                     Flatten(fs[f].json, separator, <<>>))]_vars

\* C6 as amended: the same for a file whose content parses to a value other
\* than null.
C6_FireReloadsNonNullFile ==
    [][\A f \in JsonFiles :
          (Fired(f) /\ StatSync(f) = "ok" /\ ~ParseThrows(f) /\ fs[f].json.t # "null")
              => /\ Has(languages', LocaleOf(f))
                 /\ languages' = Put(languages, LocaleOf(f),
                                     Flatten(fs[f].json, separator, <<>>))]_vars

\* a timer callback has reloaded en.json and en is the flattening of the file
C6_Witness ==
    /\ outcome[EnJson] = "reload"
    /\ fs[EnJson] = Parsed(TreeA)
    /\ Has(languages, En)
    /\ languages[En] = Flatten(TreeA, separator, <<>>)
    /\ DOMAIN languages[En] = {KeyG, KeyBC}

\* no timer is pending: every notification has been acted on
Quiescent == phase = "ready" /\ timers = {} /\ debounceMap = EmptyMap

\* C7: when every change on disk is notified and every timer has fired, a
\* locale has an entry if and only if its file exists and parses, and the
\* entry is the flattening of the file. (Nothing is asked of a file that
\* statSync cannot reach or whose content is null.)
C7_QuiescentInSync ==
    Quiescent =>
        \A f \in JsonFiles :
            CASE fs[f].kind = "json" /\ fs[f].json.t # "null" ->
                   /\ Has(languages, LocaleOf(f))
                   /\ languages[LocaleOf(f)] = Flatten(fs[f].json, separator, <<>>)
              [] fs[f].kind \in {"absent", "garbage"} -> ~Has(languages, LocaleOf(f))
              [] OTHER -> TRUE

\* C8 as claimed: a pending filename is reconciled no later than one debounce
\* delay after the first notification of its burst.
C8_WithinDelayOfFirst ==
    \A f \in JsonFiles : Pending(f) => sinceFirst[f] <= debounceDelay

\* C8 as amended: the one armed timer of a pending filename is due exactly one
\* debounce delay after the latest notification for that filename.
C8_OneDelayAfterLatest ==
    \A f \in JsonFiles :
        Pending(f) =>
            \E t \in timers :
                /\ Armed(f) = {t}
                /\ t.left = debounceDelay - sinceLast[f]

\* a restarted timer for en.json is due, later than one delay after the first
\* notification and one delay after the second
C8_Witness ==
    /\ Pending(EnJson)
    /\ burst[EnJson] = 2
    /\ sinceFirst[EnJson] > debounceDelay
    /\ sinceLast[EnJson] = debounceDelay
    /\ \E t \in Armed(EnJson) : t.left = 0

\* C9: when a timer fires and statSync fails with an error other than
\* not-found, this.languages is the same before and after the callback.
C9_StatErrorChangesNothing ==
    [][\A f \in JsonFiles :
          (Fired(f) /\ StatSync(f) \notin {"ok", "ENOENT"})
              => languages' = languages]_vars

\* the callback for an unreachable en.json has run and en is still loaded
C9_Witness ==
    /\ outcome[EnJson] = "staterr"
    /\ fs[EnJson] = NoAccess
    /\ Has(languages, En)
    /\ ~Pending(EnJson)

\* C10: a notification without filename or for a filename without the .json
\* extension arms, cancels and restarts no timer and creates no pending
\* entry; no timer, pending entry or locale ever belongs to such a file.
C10_OtherFilesIgnored ==
    /\ \A e \in EventKinds, f \in Reported \ JsonFiles :
           OnWatch(e, f) = [debounceMap |-> debounceMap, timers |-> timers]
    /\ DOMAIN debounceMap \subseteq JsonFiles
    /\ \A t \in timers : t.filename \in JsonFiles
    /\ DOMAIN languages \subseteq {LocaleOf(f) : f \in JsonFiles}

\* a.txt is in the directory and parses, both locales are loaded and
\* en.json's timer is running when a notification can come for a.txt
C10_Witness ==
    /\ phase = "ready"
    /\ fs[NotesTxt] = Parsed(TreeA)
    /\ DOMAIN languages = {En, Fr}
    /\ Pending(EnJson)
    /\ \E t \in Armed(EnJson) : t.left = Quantum
    /\ OnWatch("rename", NotesTxt).timers = timers

\* the step is the constructor's
Constructed == phase = "new" /\ phase' # "new"

\* C11 as claimed: after the initial load this.languages has an entry for
\* every .json file that reads and parses, wherever the failing files stand in
\* the listing, and no error reaches the constructor's caller.
C11_LoadsEveryParsedFile ==
    [][Constructed =>
          /\ phase' = "ready"
          /\ \A f \in JsonFiles :
                 (~ReadThrows(f) /\ ~ParseThrows(f)) => Has(languages', LocaleOf(f))]_vars

\* C11 as amended: after the initial load this.languages holds the flattening
\* of every .json file that reads and parses to a value other than null and no
\* entry for any other file, wherever the failing files stand in the listing,
\* and no error reaches the constructor's caller.
C11_LoadsEveryNonNullFile ==
    [][Constructed =>
          /\ phase' = "ready"
          /\ \A f \in JsonFiles :
                 IF ~ReadThrows(f) /\ ~ParseThrows(f) /\ fs[f].json.t # "null"
                 THEN /\ Has(languages', LocaleOf(f))
                      /\ languages'[LocaleOf(f)] = Flatten(fs[f].json, separator, <<>>)
                 ELSE ~Has(languages', LocaleOf(f))]_vars

\* just constructed in a directory whose en.json does not parse: fr is loaded
C11_Witness ==
    /\ phase = "ready"
    /\ \A f \in JsonFiles : burst[f] = 0 /\ runs[f] = 0
    /\ fs[EnJson] = Garbage
    /\ fs[FrJson] = Parsed(TreeA)
    /\ DOMAIN languages = {Fr}
    /\ languages[Fr] = Flatten(TreeA, separator, <<>>)

\* C12: whatever statSync, the read, the parse and the flattening do (a
\* content of null included), no error leaves the timer callback: it ends
\* with the pending entry removed and the manager goes on.
C12_CallbackNeverThrows ==
    [][\A f \in JsonFiles :
          Fired(f) => /\ CallbackRaises((CHOOSE t \in Armed(f) : TRUE).event, f) = "none"
                      /\ phase' = "ready"
                      /\ ~Has(debounceMap', f)]_vars

\* the callback for an en.json that holds null has run; the manager serves
\* fr and has a timer armed for fr.json
C12_Witness ==
    /\ phase = "ready"
    /\ fs[EnJson] = Parsed(JNull)
    /\ runs[EnJson] = 1
    /\ outcome[EnJson] = "loadfail"
    /\ ~Pending(EnJson)
    /\ Pending(FrJson)
    /\ ~Get(Fr, KeyG, NoArgs).throws

RECURSIVE LeafPaths(_, _)
\* the terminal (non-map) values of a tree, each with the keys that lead to it
LeafPaths(v, path) ==
    IF v.t = "obj"
    THEN UNION {LeafPaths(v.o[i][2], Append(path, v.o[i][1])) : i \in DOMAIN v.o}
    ELSE {<<path, v>>}

\* C13: the flat map of a tree has exactly one entry per terminal value of the
\* tree: no two terminal values get the same flat key.
C13_OneEntryPerLeaf ==
    (phase = "ready" /\ Has(languages, En)) =>
        Cardinality(DOMAIN languages[En])
            = Cardinality(LeafPaths(fs[EnJson].json, <<>>))

\* C14: the keys of the flat map of a tree are exactly the paths to the
\* tree's terminal values, each joined with the separator.
C14_KeysAreJoinedPaths ==
    (phase = "ready" /\ Has(languages, En)) =>
        DOMAIN languages[En]
            = {Join(l[1], separator) : l \in LeafPaths(fs[EnJson].json, <<>>)}

\* the index of the brace that closes the token {identifier} opening at i, or
\* 0 if no token opens at i
TokenEnd(t, i) ==
    LET ends == {j \in (i + 2)..Len(t) :
                    /\ t[j] = "}"
                    /\ \A m \in (i + 1)..(j - 1) : t[m] \in WordChars}
    IN  IF t[i] = "{" /\ ends # {} THEN CHOOSE j \in ends : TRUE ELSE 0

\* the tokens of t that args resolves, as <<first index, last index>>
Resolved(t, args) ==
    {<<i, TokenEnd(t, i)>> : i \in {m \in 1..Len(t) :
        TokenEnd(t, m) # 0 /\ Has(args, SubSeq(t, m + 1, TokenEnd(t, m) - 1))}}

\* t with each resolved token replaced by text[its value] and everything
\* else, unresolved tokens included, as it is
Substituted(t, args, text(_)) ==
    Join([i \in 1..Len(t) |->
            IF \E r \in Resolved(t, args) : r[1] = i
            THEN text(args[SubSeq(t, i + 1, TokenEnd(t, i) - 1)])
            ELSE IF \E r \in Resolved(t, args) : r[1] < i /\ i <= r[2]
            THEN <<>>
            ELSE <<t[i]>>],
         <<>>)

\* the template en.json holds under g
Template == fs[EnJson].json.o[1][2].s

\* C15: get leaves every {identifier} token whose identifier args does not
\* hold as it is, braces included, and replaces the others by the string form
\* of their value; a template without a token that args resolves, and any
\* template with empty args, comes back unchanged.
C15_UnresolvedTokensStay ==
    (phase = "ready" /\ Has(languages, En)) =>
        \A args \in ScalarArgs :
            LET result == Get(En, KeyG, args).value
            IN  /\ result = Substituted(Template, args, JsString)
                /\ (args = NoArgs \/ Resolved(Template, args) = {}) => result = Template

\* the template {x}{x was looked up with y only, with x, and with an x whose
\* value is itself a token
C15_Witness ==
    /\ phase = "ready"
    /\ Template = <<"{", "x", "}", "{", "x">>
    /\ Get(En, KeyG, ArgsY).value = Template
    /\ Get(En, KeyG, ArgsX).value = <<"A", "{", "x">>
    /\ Get(En, KeyG, ArgsToken).value = <<"{", "x", "}", "{", "x">>

\* the text the claim gives a value of args: an array is its elements joined
\* with ", ", a scalar element as its string form and a nested map or array
\* as the empty string; null is the empty string
ClaimedText(v) ==
    LET element(e) == IF e.t \in {"str", "num", "bool"} THEN JsString(e) ELSE <<>>
    IN  CASE v.t = "arr" -> Join([i \in 1..Len(v.a) |-> element(v.a[i])], <<",", " ">>)
          [] v.t = "null" -> <<>>
          [] OTHER -> JsString(v)

\* C16: a token whose identifier args maps to an array is replaced by the
\* elements joined with ", ", scalar elements as their string form and nested
\* maps and arrays as the empty string; a token whose value is null is
\* replaced by the empty string, never left as it is.
C16_ArrayDropsNonScalars ==
    (phase = "ready" /\ Has(languages, En)) =>
        \A args \in {ArgsNull, ArgsList, ArgsNested} :
            Get(En, KeyG, args).value = Substituted(Template, args, ClaimedText)

\* the step is the listener's, for a filename that was pending
Restarted(filename) == Pending(filename) /\ burst'[filename] = burst[filename] + 1

\* C17: a filename has at most one armed timer, and has one if and only if
\* debounceMap holds an entry for it, which is that timer's id; a notification
\* for a pending filename leaves it with one timer, armed with the whole
\* debounce delay, and the timer that fires is the registered one.
C17_RegistryMatchesTimers ==
    /\ [](\A f \in JsonFiles :
             /\ Cardinality(Armed(f)) <= 1
             /\ Armed(f) # {} <=> Pending(f)
             /\ Pending(f) => \A t \in Armed(f) : t.id = debounceMap[f])
    /\ [][\A f \in JsonFiles :
             /\ Restarted(f) =>
                    /\ Has(debounceMap', f)
                    /\ \E t \in timers' :
                           /\ {u \in timers' : u.filename = f} = {t}
                           /\ t.id = debounceMap'[f]
                           /\ t.left = debounceDelay
             /\ Fired(f) =>
                    \E t \in timers \ timers' :
                        t.filename = f /\ t.id = debounceMap[f] /\ t.left = 0]_vars

\* en.json's timer has been restarted after half the delay and is the one
\* registered; fr.json is idle
C17_Witness ==
    /\ Pending(EnJson)
    /\ burst[EnJson] = 2
    /\ sinceFirst[EnJson] = Quantum
    /\ sinceLast[EnJson] = 0
    /\ \E t \in timers : Armed(EnJson) = {t} /\ t.id = debounceMap[EnJson]
                           /\ t.left = debounceDelay
    /\ ~Pending(FrJson)
    /\ Armed(FrJson) = {}

\* C18: the callback of a filename's timer removes the filename's entry from
\* debounceMap in the same turn, whatever the switch does; and a pending
\* filename that gets no further notification becomes idle.
C18_PendingReturnsToIdle ==
    /\ [][\A f \in JsonFiles :
             Fired(f) => /\ ~Has(debounceMap', f)
                         /\ {u \in timers' : u.filename = f} = {}
                         /\ outcome'[f] \in {"reload", "loadfail", "evict",
                                             "ignored", "staterr", "none"}]_vars
    /\ \A f \in JsonFiles : \A b \in 1..MaxBurst :
           (Pending(f) /\ burst[f] = b) ~> (~Pending(f) \/ burst[f] > b)

\* both files are idle again, en.json after a callback whose switch had no
\* case for the event kind and fr.json after one that reloaded it
C18_Witness ==
    /\ ~Pending(EnJson) /\ Armed(EnJson) = {}
    /\ runs[EnJson] = 1
    /\ outcome[EnJson] = "none"
    /\ ~Pending(FrJson) /\ Armed(FrJson) = {}
    /\ runs[FrJson] = 1
    /\ outcome[FrJson] = "reload"

\* the step is the listener's, arming or restarting filename's timer
Notified(filename) ==
    /\ Has(debounceMap', filename)
    /\ ~Has(debounceMap, filename) \/ burst'[filename] = burst[filename] + 1

\* C19: this.languages changes only in the constructor's step and in a timer
\* callback; a notification leaves it, and with it every result of get, as
\* it was, so that get serves the previous version until the timer fires.
C19_TableChangesOnlyOnLoadOrFire ==
    [][/\ languages' # languages => Constructed \/ \E f \in JsonFiles : Fired(f)
       /\ \A f \in JsonFiles :
              Notified(f) =>
                  /\ languages' = languages
                  /\ \A l \in Locales, k \in Keys, a \in ArgSets :
                         Get(l, k, a)' = Get(l, k, a)]_vars

\* en.json has been emptied and its notification taken half a delay ago: get
\* still serves the template that was loaded before
C19_Witness ==
    /\ Pending(EnJson)
    /\ sinceLast[EnJson] = Quantum
    /\ fs[EnJson] = Parsed(TreeEmpty)
    /\ Has(languages, En)
    /\ languages[En] = Flatten(TreeA, separator, <<>>)
    /\ Get(En, KeyG, ArgsX) = [throws |-> FALSE, value |-> <<"H", "A">>]

\* the string a terminal value of the trees is to be stored as
LeafText(v) ==
    CASE v = JNull -> <<>>
      [] v = JNum(7) -> <<"7">>
      [] v = JBool(TRUE) -> <<"t", "r", "u", "e">>
      [] v = JArr(<<JNum(1), JNull, JStr(<<"b">>)>>) -> <<"1", ",", ",", "b">>
      [] v.t = "str" -> v.s

\* C20: every value of a locale's flat map is a string, the string form of a
\* terminal value of the file: the empty string for null, the elements joined
\* with "," for an array; where the keys do not collide, each key holds the
\* string form of the terminal value its path leads to.
C20_ValuesAreStrings ==
    (phase = "ready" /\ Has(languages, En)) =>
        LET flat == languages[En]
            leaves == LeafPaths(fs[EnJson].json, <<>>)
            keyOf(l) == Join(l[1], separator)
        IN  /\ \A k \in DOMAIN flat :
                   /\ flat[k] \in Seq(STRING)
                   /\ \E l \in leaves : flat[k] = LeafText(l[2])
            /\ (/\ DOMAIN flat = {keyOf(l) : l \in leaves}
                /\ Cardinality(DOMAIN flat) = Cardinality(leaves))
                   => \A l \in leaves : flat[keyOf(l)] = LeafText(l[2])

\* en.json holds null under a and an array under a.b, and en is loaded
C20_Witness ==
    /\ phase = "ready"
    /\ fs[EnJson] = Parsed(JObj(<< <<<<"a">>, JNull>>,
                                   <<<<"a", ".", "b">>,
                                     JArr(<<JNum(1), JNull, JStr(<<"b">>)>>)>> >>))
    /\ Has(languages, En)
    /\ DOMAIN languages[En] = {<<"a">>, <<"a", ".", "b">>}
    /\ languages[En][<<"a">>] = <<>>
    /\ languages[En][<<"a", ".", "b">>] = <<"1", ",", ",", "b">>

EntryOf(map, key) == IF Has(map, key) THEN <<map[key]>> ELSE <<>>

\* C22: a notification for one filename leaves the armed timer (its deadline
\* included) and the pending entry of every other filename as they were; the
\* callback of one filename's timer leaves them as they were too, and the
\* other filename's locale as well.
C22_FilesAreIndependent ==
    [][\A f, g \in JsonFiles :
          (f # g /\ (Notified(f) \/ Fired(f))) =>
              /\ {u \in timers' : u.filename = g} = Armed(g)
              /\ EntryOf(debounceMap', g) = EntryOf(debounceMap, g)
              /\ Fired(f) =>
                     EntryOf(languages', LocaleOf(g)) = EntryOf(languages, LocaleOf(g))]_vars

\* en.json's timer has just been restarted while fr.json's, armed one delay
\* ago, is due; fr's callback has still to run and fr is loaded
C22_Witness ==
    /\ Pending(EnJson) /\ burst[EnJson] = 2 /\ sinceLast[EnJson] = 0
    /\ Pending(FrJson) /\ burst[FrJson] = 1 /\ sinceLast[FrJson] = debounceDelay
    /\ \E t \in Armed(FrJson) : t.left = 0 /\ t.id = debounceMap[FrJson]
    /\ \E t \in Armed(EnJson) : t.left = debounceDelay
    /\ Has(languages, Fr)

====
